---------------------------- MODULE Spec2Model ----------------------------
(***************************************************************************)
(* Model of src/json.rs of alfred-rs: the JSON encoders of Icon,           *)
(* ModifierData and Item, the document Builder with its setters, and the   *)
(* writer that emits the document to a sink and flushes it.                *)
(*                                                                         *)
(* JSON values are tagged records [t, v]; a JSON object (serde_json Map)   *)
(* and a HashMap are functions from key strings to values, so equality is  *)
(* independent of insertion order, as it is for both Rust types.           *)
(***************************************************************************)
EXTENDS Naturals, Sequences, FiniteSets, TLC

VARIABLES pc, items, variables, hist, json, sink, result, input, output

vars == <<pc, items, variables, hist, json, sink, result, input, output>>

-----------------------------------------------------------------------------
(* Bounds of the model *)

\* most setter calls made on one builder for which the call history is kept
MaxCalls == 2
\* longest item slice handed to the builder
MaxItems == 2

-----------------------------------------------------------------------------
(* Option<T>, maps and JSON values *)

None == << >>
Some(x) == <<x>>
Option(S) == {None} \cup {Some(x) : x \in S}

\* HashMap::new() / json::Map::new()
EmptyMap == << >>

\* json::Map::insert: adds the key, or replaces the value of a key already there
Insert(m, k, v) == [x \in (DOMAIN m) \cup {k} |-> IF x = k THEN v ELSE m[x]]

JString(s) == [t |-> "String", v |-> s]
JBool(b) == [t |-> "Bool", v |-> b]
JArray(s) == [t |-> "Array", v |-> s]
JObject(m) == [t |-> "Object", v |-> m]
JNull == [t |-> "Null", v |-> None]

-----------------------------------------------------------------------------
(* Icon *)

Icon_to_json(icon) ==
    CASE icon.kind = "Path" -> JObject(Insert(EmptyMap, "path", JString(icon.s)))
      [] icon.kind = "File" ->
            JObject(Insert(Insert(EmptyMap, "type", JString("fileicon")),
                           "path", JString(icon.s)))
      [] icon.kind = "FileType" ->
            JObject(Insert(Insert(EmptyMap, "type", JString("filetype")),
                           "path", JString(icon.s)))

-----------------------------------------------------------------------------
(* The insertion steps shared by the encoders *)

\* InsertOpt with an unset field written as null
InsertOptNull(d, key, opt) ==
    IF opt # None THEN Insert(d, key, JString(opt[1])) ELSE Insert(d, key, JNull)

\* if let Some(ref x) = self.field { d.insert(key, json!(x)); }
InsertOpt(d, key, opt) ==
    IF opt # None THEN Insert(d, key, JString(opt[1])) ELSE d

\* if let Some(ref icon) = self.icon { d.insert("icon", icon.to_json()); }
InsertIcon(d, icon) ==
    IF icon # None THEN Insert(d, "icon", Icon_to_json(icon[1])) ELSE d

\* for (key, value) in &self.variables { vars.insert(key, json!(value)); }
\* The HashMap yields its entries in an arbitrary order; its keys are distinct,
\* so every order builds the same object and one order is taken here.
RECURSIVE InsertEach(_, _, _)
InsertEach(acc, m, todo) ==
    IF todo = {} THEN acc
    ELSE LET k == CHOOSE x \in todo : TRUE
         IN  InsertEach(Insert(acc, k, JString(m[k])), m, todo \ {k})

\* InsertVariables with one entry of the mapping left out
InsertVariablesDropOne(d, m) ==
    IF DOMAIN m # {}
    THEN LET k == CHOOSE x \in DOMAIN m : TRUE
         IN  Insert(d, "variables", JObject(InsertEach(EmptyMap, m, (DOMAIN m) \ {k})))
    ELSE d

\* if !self.variables.is_empty() { ...; d.insert("variables", Value::Object(vars)); }
InsertVariables(d, m) ==
    IF DOMAIN m # {}
    THEN Insert(d, "variables", JObject(InsertEach(EmptyMap, m, DOMAIN m)))
    ELSE d

-----------------------------------------------------------------------------
(* ModifierData *)

\* ModifierData_to_json with valid written only when false, as for an Item
ModifierData_to_json_ValidOnlyFalse(data) ==
    LET m0 == InsertOpt(EmptyMap, "subtitle", data.subtitle)
        m1 == InsertOpt(m0, "arg", data.arg)
        m2 == IF data.valid = Some(FALSE) THEN Insert(m1, "valid", JBool(FALSE)) ELSE m1
        m3 == InsertIcon(m2, data.icon)
        m4 == InsertVariables(m3, data.variables)
    IN  JObject(m4)

ModifierData_to_json(data) ==
    LET m0 == InsertOpt(EmptyMap, "subtitle", data.subtitle)
        m1 == InsertOpt(m0, "arg", data.arg)
        m2 == IF data.valid # None THEN Insert(m1, "valid", JBool(data.valid[1])) ELSE m1
        m3 == InsertIcon(m2, data.icon)
        m4 == InsertVariables(m3, data.variables)
    IN  JObject(m4)

-----------------------------------------------------------------------------
(* Item *)

Modifier == {"Command", "Option", "Control", "Shift", "Fn"}

\* ModifierKey with Option written as opt
ModifierKeyOpt(modifier) ==
    CASE modifier = "Command" -> "cmd"
      [] modifier = "Option" -> "opt"
      [] modifier = "Control" -> "ctrl"
      [] modifier = "Shift" -> "shift"
      [] modifier = "Fn" -> "fn"

\* let key = match *modifier { ... }
ModifierKey(modifier) ==
    CASE modifier = "Command" -> "cmd"
      [] modifier = "Option" -> "alt"
      [] modifier = "Control" -> "ctrl"
      [] modifier = "Shift" -> "shift"
      [] modifier = "Fn" -> "fn"

\* match self.type_ { ... }
InsertType(d, type_) ==
    CASE type_ = "Default" -> d
      [] type_ = "File" -> Insert(d, "type", JString("file"))
      [] type_ = "FileSkipCheck" -> Insert(d, "type", JString("file:skipcheck"))

\* InsertValid with the key written whatever the validity
InsertValidAlways(d, valid) == Insert(d, "valid", JBool(valid))

\* if !self.valid { d.insert("valid", Value::Bool(false)); }
InsertValid(d, valid) == IF ~valid THEN Insert(d, "valid", JBool(FALSE)) ELSE d

\* InsertText with && for ||
InsertTextBoth(d, text_copy, text_large_type) ==
    IF text_copy # None /\ text_large_type # None
    THEN LET t0 == InsertOpt(EmptyMap, "copy", text_copy)
             t1 == InsertOpt(t0, "largetype", text_large_type)
         IN  Insert(d, "text", JObject(t1))
    ELSE d

\* if self.text_copy.is_some() || self.text_large_type.is_some() { ... }
InsertText(d, text_copy, text_large_type) ==
    IF text_copy # None \/ text_large_type # None
    THEN LET t0 == InsertOpt(EmptyMap, "copy", text_copy)
             t1 == InsertOpt(t0, "largetype", text_large_type)
         IN  Insert(d, "text", JObject(t1))
    ELSE d

\* for (modifier, data) in &self.modifiers { mods.insert(key, data.to_json()); }
RECURSIVE InsertEachMod(_, _, _)
InsertEachMod(acc, modifiers, todo) ==
    IF todo = {} THEN acc
    ELSE LET m == CHOOSE x \in todo : TRUE
         IN  InsertEachMod(Insert(acc, ModifierKey(m), ModifierData_to_json(modifiers[m])),
                           modifiers, todo \ {m})

\* if !self.modifiers.is_empty() { ...; d.insert("mods", Value::Object(mods)); }
InsertMods(d, modifiers) ==
    IF DOMAIN modifiers # {}
    THEN Insert(d, "mods", JObject(InsertEachMod(EmptyMap, modifiers, DOMAIN modifiers)))
    ELSE d

Item_to_json(item) ==
    LET d0  == Insert(EmptyMap, "title", JString(item.title))
        d1  == InsertOpt(d0, "subtitle", item.subtitle)
        d2  == InsertIcon(d1, item.icon)
        d3  == InsertOpt(d2, "uid", item.uid)
        d4  == InsertOpt(d3, "arg", item.arg)
        d5  == InsertType(d4, item.type_)
        d6  == InsertValid(d5, item.valid)
        d7  == InsertOpt(d6, "autocomplete", item.autocomplete)
        d8  == InsertText(d7, item.text_copy, item.text_large_type)
        d9  == InsertOpt(d8, "quicklookurl", item.quicklook_url)
        d10 == InsertMods(d9, item.modifiers)
        d11 == InsertVariables(d10, item.variables)
    IN  JObject(d11)

-----------------------------------------------------------------------------
(* Builder *)

RECURSIVE ReverseSeq(_)
ReverseSeq(s) == IF s = << >> THEN << >> ELSE Append(ReverseSeq(Tail(s)), Head(s))

\* ItemsArray with the items in reverse order
ItemsArrayReversed(its) == JArray([i \in 1..Len(its) |-> Item_to_json(ReverseSeq(its)[i])])

\* Value::Array(self.items.iter().map(|x| x.to_json()).collect())
ItemsArray(its) == JArray([i \in 1..Len(its) |-> Item_to_json(its[i])])

\* Builder::into_json: the first entry the iterator yields opens the object,
\* the loop inserts the others.
into_json(its, variables_) ==
    LET root == Insert(EmptyMap, "items", ItemsArray(its))
    IN  IF DOMAIN variables_ # {}
        THEN LET first == CHOOSE k \in DOMAIN variables_ : TRUE
                 vars0 == Insert(EmptyMap, first, JString(variables_[first]))
                 vars1 == InsertEach(vars0, variables_, (DOMAIN variables_) \ {first})
             IN  JObject(Insert(root, "variables", JObject(vars1)))
        ELSE JObject(root)

\* HashMapInsert that keeps the value of a key already there
HashMapInsertKeepOld(m, k, v) == IF k \in DOMAIN m THEN m ELSE Insert(m, k, v)

\* HashMap::insert of Builder::set_variable
HashMapInsert(m, k, v) == Insert(m, k, v)

-----------------------------------------------------------------------------
(* The sink (a std::io::Write) and Builder::write *)

IoErrors == {"BrokenPipe", "Other"}

Ok == [ok |-> TRUE, err |-> "none"]
Err(e) == [ok |-> FALSE, err |-> e]
IoResults == {Ok} \cup {Err(e) : e \in IoErrors}

\* the text that formatting the value with "{}" gives
to_string(value) == [display |-> value]

WriteFmtCall(text, res) == [op |-> "write_fmt", text |-> Some(text), res |-> res]
FlushCall(res) == [op |-> "flush", text |-> None, res |-> res]

\* write with the flush made before the write
writeFlushFirst(its, variables_, wres, fres) ==
    LET text == to_string(into_json(its, variables_))
    IN  IF ~fres.ok
        THEN [calls |-> <<FlushCall(fres)>>, ret |-> fres]
        ELSE [calls |-> <<FlushCall(fres), WriteFmtCall(text, wres)>>, ret |-> wres]

\* write with the answer of the flush dropped
writeSwallowFlush(its, variables_, wres, fres) ==
    LET text == to_string(into_json(its, variables_))
    IN  IF ~wres.ok
        THEN [calls |-> <<WriteFmtCall(text, wres)>>, ret |-> wres]
        ELSE [calls |-> <<WriteFmtCall(text, wres), FlushCall(fres)>>, ret |-> Ok]

\* Builder::write, given what the sink answers to the write and to the flush:
\* the calls the sink receives, in order, and the value returned.
\*     write!(&mut w, "{}", self.into_json())?;
\*     w.flush()
write(its, variables_, wres, fres) ==
    LET text == to_string(into_json(its, variables_))
    IN  IF ~wres.ok
        THEN [calls |-> <<WriteFmtCall(text, wres)>>, ret |-> wres]
        ELSE [calls |-> <<WriteFmtCall(text, wres), FlushCall(fres)>>, ret |-> fres]

-----------------------------------------------------------------------------
(* Inputs *)

VarKeys == {"fruit", "vegetable"}
VarVals == {"banana", "carrot"}
VarMaps == {EmptyMap} \cup UNION {[S -> VarVals] : S \in (SUBSET VarKeys) \ {{}}}
SmallVarMaps == {EmptyMap, [k \in {"fruit"} |-> "banana"]}

Icons == [kind : {"Path", "File", "FileType"}, s : {"icon.png"}]

ModifierDatas ==
    [subtitle : Option({"Ctrl Subtitle"}), arg : Option({"Alt Argument"}),
     valid : Option(BOOLEAN), icon : Option(Icons), variables : VarMaps]

\* ModifierData::new(): every field absent
EmptyModifierData ==
    [subtitle |-> None, arg |-> None, valid |-> None, icon |-> None, variables |-> EmptyMap]

FullModifierData ==
    [subtitle |-> Some("Ctrl Subtitle"), arg |-> Some("Alt Argument"), valid |-> Some(TRUE),
     icon |-> Some([kind |-> "File", s |-> "icon.png"]),
     variables |-> [k \in {"vegetable"} |-> "carrot"]]

NoMods == EmptyMap

\* every set of modifiers, each with empty or fully set data; and every single
\* modifier with every ModifierData
ModMaps ==
    {NoMods}
    \cup UNION {[S -> {EmptyModifierData, FullModifierData}] : S \in (SUBSET Modifier) \ {{}}}
    \cup UNION {[{m} -> ModifierDatas] : m \in Modifier}

SmallModMaps == {NoMods, [m \in {"Option"} |-> FullModifierData]}

ItemTypes == {"Default", "File", "FileSkipCheck"}

\* Item::new(title)
NewItem(title) ==
    [title |-> title, subtitle |-> None, icon |-> None, uid |-> None, arg |-> None,
     type_ |-> "Default", valid |-> TRUE, autocomplete |-> None, text_copy |-> None,
     text_large_type |-> None, quicklook_url |-> None, modifiers |-> NoMods,
     variables |-> EmptyMap]

\* every combination of the scalar fields, with few modifier and variable maps
ScalarItems ==
    [title : {"Item 1"}, subtitle : Option({"Subtitle"}), icon : Option(Icons),
     uid : Option({"u1"}), arg : Option({"Argument"}), type_ : ItemTypes,
     valid : BOOLEAN, autocomplete : Option({"auto"}), text_copy : Option({"copy text"}),
     text_large_type : Option({"big text"}), quicklook_url : Option({"https://example.com"}),
     modifiers : SmallModMaps, variables : SmallVarMaps]

\* every modifier map and every variable map, on a plain item
MapItems ==
    {[NewItem("Item 1") EXCEPT !.modifiers = m, !.variables = v] :
        m \in ModMaps, v \in SmallVarMaps}
    \cup {[NewItem("Item 1") EXCEPT !.modifiers = m, !.variables = v] :
        m \in SmallModMaps, v \in VarMaps}

ItemInputs == ScalarItems \cup MapItems

\* the items handed to the builder
ItemPool ==
    {NewItem("Item 1"),
     [NewItem("Item 2") EXCEPT !.subtitle = Some("Subtitle"),
                               !.variables = [k \in VarKeys |-> IF k = "fruit" THEN "banana" ELSE "carrot"],
                               !.modifiers = [m \in {"Shift"} |-> EmptyModifierData]]}

RECURSIVE SeqsUpTo(_, _)
SeqsUpTo(S, n) ==
    IF n = 0 THEN {<< >>}
    ELSE LET shorter == SeqsUpTo(S, n - 1)
         IN  shorter \cup {Append(s, x) : s \in shorter, x \in S}

ItemSlices == SeqsUpTo(ItemPool, MaxItems)

-----------------------------------------------------------------------------
(* State                                                                   *)
(*   pc         "start"; "build" while a Builder is held; "json" after     *)
(*              into_json; "done" after write / write_items; "icon",       *)
(*              "modifier_data", "item" after an encoder was applied       *)
(*   items, variables   the fields of the Builder (kept as they were moved *)
(*              into into_json / write once the builder is consumed)       *)
(*   hist       the set_variables / set_variable calls made on the builder *)
(*              held (directly, or by variables / variable), in order, and *)
(*              the slice last handed to it (history only)                 *)
(*   json       the Value into_json returned                               *)
(*   sink       the calls the Write received, in order, with its answers   *)
(*   result     the io::Result write returned                              *)
(*   input, output   the value an encoder was applied to, and its result   *)
(***************************************************************************)

NoHist == [calls |-> << >>, slice |-> << >>]

VarCall(op, key, value, map) == [op |-> op, key |-> key, value |-> value, map |-> map]

Init ==
    /\ pc = "start"
    /\ items = << >>
    /\ variables = EmptyMap
    /\ hist = NoHist
    /\ json = None
    /\ sink = << >>
    /\ result = None
    /\ input = None
    /\ output = None

\* Builder::new()
New ==
    /\ pc = "start"
    /\ pc' = "build"
    /\ items' = << >>
    /\ variables' = EmptyMap
    /\ hist' = NoHist
    /\ UNCHANGED <<json, sink, result, input, output>>

\* Builder::with_items(items)
WithItems ==
    /\ pc = "start"
    /\ \E its \in ItemSlices :
       /\ pc' = "build"
       /\ items' = its
       /\ variables' = EmptyMap
       /\ hist' = [calls |-> << >>, slice |-> its]
       /\ UNCHANGED <<json, sink, result, input, output>>

\* the state change of set_items, of set_variables and of set_variable
set_items(its) == items' = its /\ UNCHANGED variables

set_variables(map) == variables' = map /\ UNCHANGED items

set_variable(key, value) ==
    variables' = HashMapInsert(variables, key, value) /\ UNCHANGED items

\* Builder::set_items(&mut self, items)
SetItems ==
    /\ pc = "build"
    /\ \E its \in ItemSlices :
       /\ set_items(its)
       /\ hist' = [hist EXCEPT !.slice = its]
       /\ UNCHANGED <<pc, json, sink, result, input, output>>

\* Builder::items(self, items): set_items, then the builder is handed back
Items ==
    /\ pc = "build"
    /\ \E its \in ItemSlices :
       /\ set_items(its)
       /\ hist' = [hist EXCEPT !.slice = its]
       /\ UNCHANGED <<pc, json, sink, result, input, output>>

\* Builder::set_variables(&mut self, variables)
SetVariables ==
    /\ pc = "build"
    /\ \E map \in VarMaps :
       /\ Len(hist.calls) < MaxCalls
       /\ set_variables(map)
       /\ hist' = [hist EXCEPT !.calls = Append(@, VarCall("set_variables", "", "", map))]
       /\ UNCHANGED <<pc, json, sink, result, input, output>>

\* Builder::variables(self, variables): set_variables, then the builder is handed back
Variables ==
    /\ pc = "build"
    /\ \E map \in VarMaps :
       /\ Len(hist.calls) < MaxCalls
       /\ set_variables(map)
       /\ hist' = [hist EXCEPT !.calls = Append(@, VarCall("set_variables", "", "", map))]
       /\ UNCHANGED <<pc, json, sink, result, input, output>>

\* Builder::set_variable(&mut self, key, value)
SetVariable ==
    /\ pc = "build"
    /\ \E key \in VarKeys, value \in VarVals :
       /\ Len(hist.calls) < MaxCalls
       /\ set_variable(key, value)
       /\ hist' = [hist EXCEPT !.calls = Append(@, VarCall("set_variable", key, value, EmptyMap))]
       /\ UNCHANGED <<pc, json, sink, result, input, output>>

\* Builder::variable(self, key, value): set_variable, then the builder is handed back
Variable ==
    /\ pc = "build"
    /\ \E key \in VarKeys, value \in VarVals :
       /\ Len(hist.calls) < MaxCalls
       /\ set_variable(key, value)
       /\ hist' = [hist EXCEPT !.calls = Append(@, VarCall("set_variable", key, value, EmptyMap))]
       /\ UNCHANGED <<pc, json, sink, result, input, output>>

\* Builder::into_json(self): consumes the builder
IntoJson ==
    /\ pc = "build"
    /\ pc' = "json"
    /\ json' = Some(into_json(items, variables))
    /\ hist' = NoHist
    /\ UNCHANGED <<items, variables, sink, result, input, output>>

\* Builder::write(self, w): consumes the builder; wres and fres are what the
\* sink answers to the write and to the flush
Write ==
    /\ pc = "build"
    /\ \E wres \in IoResults, fres \in IoResults :
       /\ pc' = "done"
       /\ LET r == write(items, variables, wres, fres)
          IN  sink' = sink \o r.calls /\ result' = Some(r.ret)
       /\ hist' = NoHist
       /\ UNCHANGED <<items, variables, json, input, output>>

\* write_items(w, items): Builder::with_items(items).write(w)
WriteItems ==
    /\ pc = "start"
    /\ \E its \in ItemSlices, wres \in IoResults, fres \in IoResults :
       /\ pc' = "done"
       /\ items' = its
       /\ variables' = EmptyMap
       /\ LET r == write(its, EmptyMap, wres, fres)
          IN  sink' = sink \o r.calls /\ result' = Some(r.ret)
       /\ UNCHANGED <<hist, json, input, output>>

\* Icon::to_json(&self)
EncodeIcon ==
    /\ pc = "start"
    /\ \E icon \in Icons :
       /\ pc' = "icon"
       /\ input' = Some(icon)
       /\ output' = Some(Icon_to_json(icon))
       /\ UNCHANGED <<items, variables, hist, json, sink, result>>

\* ModifierData::to_json(&self)
EncodeModifierData ==
    /\ pc = "start"
    /\ \E data \in ModifierDatas :
       /\ pc' = "modifier_data"
       /\ input' = Some(data)
       /\ output' = Some(ModifierData_to_json(data))
       /\ UNCHANGED <<items, variables, hist, json, sink, result>>

\* Item::to_json(&self)
EncodeItem ==
    /\ pc = "start"
    /\ \E item \in ItemInputs :
       /\ pc' = "item"
       /\ input' = Some(item)
       /\ output' = Some(Item_to_json(item))
       /\ UNCHANGED <<items, variables, hist, json, sink, result>>

Next ==
    \/ New
    \/ WithItems
    \/ SetItems
    \/ Items
    \/ SetVariables
    \/ Variables
    \/ SetVariable
    \/ Variable
    \/ IntoJson
    \/ Write
    \/ WriteItems
    \/ EncodeIcon
    \/ EncodeModifierData
    \/ EncodeItem

Spec == Init /\ [][Next]_vars

-----------------------------------------------------------------------------
(* Reading a JSON object *)

Keys(o) == DOMAIN o.v
Has(o, k) == o.t = "Object" /\ k \in DOMAIN o.v
IsString(o, k, s) == Has(o, k) /\ o.v[k].t = "String" /\ o.v[k].v = s
IsBool(o, k, b) == Has(o, k) /\ o.v[k].t = "Bool" /\ o.v[k].v = b

\* key k of o is a String with the value of opt iff opt is set, and absent otherwise
OptKey(o, k, opt) == IF opt # None THEN IsString(o, k, opt[1]) ELSE ~Has(o, k)

\* the shape section 4.1 gives an icon
IconShape(o, icon) ==
    /\ o.t = "Object"
    /\ IsString(o, "path", icon.s)
    /\ CASE icon.kind = "Path" -> Keys(o) = {"path"}
         [] icon.kind = "File" -> Keys(o) = {"type", "path"} /\ IsString(o, "type", "fileicon")
         [] icon.kind = "FileType" -> Keys(o) = {"type", "path"} /\ IsString(o, "type", "filetype")

\* key "variables" of o is present iff the mapping is non-empty, and then holds
\* exactly the pairs of the mapping
VariablesKey(o, map) ==
    /\ Has(o, "variables") <=> DOMAIN map # {}
    /\ Has(o, "variables") =>
          /\ o.v["variables"].t = "Object"
          /\ Keys(o.v["variables"]) = DOMAIN map
          /\ \A k \in DOMAIN map : IsString(o.v["variables"], k, map[k])

-----------------------------------------------------------------------------
(* Builder::write and write_items *)

SinkOps == [i \in 1..Len(sink) |-> sink[i].op]
Document == to_string(into_json(items, variables))
WriteCount == Cardinality({i \in 1..Len(sink) : sink[i].op = "write_fmt"})
FlushCount == Cardinality({i \in 1..Len(sink) : sink[i].op = "flush"})

\* C1, as claimed: every write / write_items makes exactly one write of the
\* complete JSON text followed by exactly one flush.
C1_OneWriteThenOneFlush ==
    pc = "done" =>
        /\ SinkOps = <<"write_fmt", "flush">>
        /\ sink[1].text = Some(Document)

\* C1, amended: every write / write_items makes exactly one write of the
\* complete JSON text; when that write succeeds exactly one flush follows it and
\* is the last call, and when it fails no flush is made.  A flush never
\* precedes the write and nothing is written after a flush.
C1_OneWriteThenFlushIfWritten ==
    pc = "done" =>
        /\ WriteCount = 1
        /\ sink[1].op = "write_fmt"
        /\ sink[1].text = Some(Document)
        /\ IF sink[1].res.ok
           THEN SinkOps = <<"write_fmt", "flush">>
           ELSE SinkOps = <<"write_fmt">>

C1_Witness ==
    /\ pc = "done"
    /\ SinkOps = <<"write_fmt", "flush">>
    /\ Len(items) = 2
    /\ DOMAIN variables # {}

\* C2: write returns the error of the call of the sink that failed, unchanged;
\* no call is made a second time; it returns Ok only when the write and the
\* flush both succeeded.
C2_ErrorsPropagate ==
    pc = "done" =>
        /\ result # None
        /\ WriteCount <= 1 /\ FlushCount <= 1
        /\ \A i \in 1..Len(sink) : ~sink[i].res.ok => (result[1] = sink[i].res /\ i = Len(sink))
        /\ result[1].ok <=>
              /\ WriteCount = 1 /\ FlushCount = 1
              /\ \A i \in 1..Len(sink) : sink[i].res.ok

C2_Witness ==
    /\ pc = "done"
    /\ Len(sink) = 2
    /\ sink[1].res.ok
    /\ sink[2].res = Err("BrokenPipe")
    /\ result = Some(Err("BrokenPipe"))

-----------------------------------------------------------------------------
(* Builder::into_json *)

\* C3: the root always has key "items", an array as long as the builder's
\* items whose i-th entry is Item::to_json of the i-th item; with no items and
\* no variables the root is exactly {"items": []}.
C3_ItemsInOrder ==
    pc = "json" =>
        LET root == json[1]
        IN  /\ Has(root, "items")
            /\ root.v["items"].t = "Array"
            /\ Len(root.v["items"].v) = Len(items)
            /\ \A i \in 1..Len(items) : root.v["items"].v[i] = Item_to_json(items[i])
            /\ (items = << >> /\ DOMAIN variables = {}) =>
                  (Keys(root) = {"items"} /\ Len(root.v["items"].v) = 0)

C3_Witness ==
    /\ pc = "json"
    /\ Len(items) = 2
    /\ items[1] # items[2]
    /\ Len(json[1].v["items"].v) = 2

-----------------------------------------------------------------------------
(* Item::to_json *)

\* every field of the item at its default, as Item::new leaves it
IsPlain(item) ==
    /\ item.subtitle = None /\ item.icon = None /\ item.uid = None /\ item.arg = None
    /\ item.type_ = "Default" /\ item.valid
    /\ item.autocomplete = None /\ item.text_copy = None /\ item.text_large_type = None
    /\ item.quicklook_url = None
    /\ DOMAIN item.modifiers = {} /\ DOMAIN item.variables = {}

\* C4: title is always the item's title; each of subtitle, icon, uid, arg,
\* autocomplete, quicklookurl is present with exactly the value set iff its
\* field is set and absent otherwise; no key is null; an item with nothing
\* but its title encodes to an object with the one key title.
C4_OptionalKeys ==
    pc = "item" =>
        LET item == input[1]
            o == output[1]
        IN  /\ IsString(o, "title", item.title)
            /\ OptKey(o, "subtitle", item.subtitle)
            /\ OptKey(o, "uid", item.uid)
            /\ OptKey(o, "arg", item.arg)
            /\ OptKey(o, "autocomplete", item.autocomplete)
            /\ OptKey(o, "quicklookurl", item.quicklook_url)
            /\ Has(o, "icon") <=> item.icon # None
            /\ item.icon # None => IconShape(o.v["icon"], item.icon[1])
            /\ \A k \in Keys(o) : o.v[k].t # "Null"
            /\ IsPlain(item) => Keys(o) = {"title"}

C4_Witness ==
    /\ pc = "item"
    /\ input[1].subtitle # None /\ input[1].icon # None /\ input[1].uid = None
    /\ input[1].arg # None /\ input[1].autocomplete = None /\ input[1].quicklook_url # None
    /\ Has(output[1], "subtitle") /\ ~Has(output[1], "uid")

\* C5: key valid is present iff the item's validity is false, and is then the
\* boolean false.
C5_ValidOnlyWhenFalse ==
    pc = "item" =>
        LET item == input[1]
            o == output[1]
        IN  IF item.valid THEN ~Has(o, "valid") ELSE IsBool(o, "valid", FALSE)

C5_Witness ==
    /\ pc = "item"
    /\ ~input[1].valid
    /\ Has(output[1], "valid")

\* C6: key text is present iff text_copy or text_large_type is set; in it copy
\* is present iff text_copy is set and largetype iff text_large_type is set,
\* each with the value set, so a text object is never empty.
C6_Text ==
    pc = "item" =>
        LET item == input[1]
            o == output[1]
        IN  /\ Has(o, "text") <=> (item.text_copy # None \/ item.text_large_type # None)
            /\ Has(o, "text") =>
                  /\ o.v["text"].t = "Object"
                  /\ OptKey(o.v["text"], "copy", item.text_copy)
                  /\ OptKey(o.v["text"], "largetype", item.text_large_type)
                  /\ Keys(o.v["text"]) \subseteq {"copy", "largetype"}
                  /\ Keys(o.v["text"]) # {}

C6_Witness ==
    /\ pc = "item"
    /\ input[1].text_copy = None /\ input[1].text_large_type # None
    /\ Has(output[1], "text")
    /\ Keys(output[1].v["text"]) = {"largetype"}

\* the wire name of each modifier
WireName ==
    [m \in Modifier |->
        CASE m = "Command" -> "cmd" [] m = "Option" -> "alt" [] m = "Control" -> "ctrl"
          [] m = "Shift" -> "shift" [] m = "Fn" -> "fn"]

\* C7: key mods is present iff the modifier map is non-empty; its keys are
\* exactly the wire names of the modifiers of the map, one per entry, and the
\* value under each is ModifierData::to_json of that entry.
C7_Mods ==
    pc = "item" =>
        LET item == input[1]
            o == output[1]
        IN  /\ Has(o, "mods") <=> DOMAIN item.modifiers # {}
            /\ Has(o, "mods") =>
                  /\ o.v["mods"].t = "Object"
                  /\ Keys(o.v["mods"]) = {WireName[m] : m \in DOMAIN item.modifiers}
                  /\ Cardinality(Keys(o.v["mods"])) = Cardinality(DOMAIN item.modifiers)
                  /\ \A m \in DOMAIN item.modifiers :
                        o.v["mods"].v[WireName[m]] = ModifierData_to_json(item.modifiers[m])

C7_Witness ==
    /\ pc = "item"
    /\ DOMAIN input[1].modifiers = {"Command", "Option", "Fn"}
    /\ input[1].modifiers["Command"] # input[1].modifiers["Option"]
    /\ Keys(output[1].v["mods"]) = {"cmd", "alt", "fn"}

-----------------------------------------------------------------------------
(* ModifierData::to_json *)

\* the keys section 4.2 gives the object of a ModifierData
ModifierDataShape(o, data) ==
    /\ o.t = "Object"
    /\ OptKey(o, "subtitle", data.subtitle)
    /\ OptKey(o, "arg", data.arg)
    /\ IF data.valid # None THEN IsBool(o, "valid", data.valid[1]) ELSE ~Has(o, "valid")
    /\ Has(o, "icon") <=> data.icon # None
    /\ VariablesKey(o, data.variables)
    /\ Keys(o) \subseteq {"subtitle", "arg", "valid", "icon", "variables"}

\* C8: the object of a ModifierData has subtitle, arg, valid and icon each iff
\* that field is set (valid with the boolean set, true or false) and variables
\* iff the mapping is non-empty; with every field absent it is {} and is still
\* emitted under its modifier's key in the mods of the item.
C8_ModifierData ==
    /\ pc = "modifier_data" =>
          /\ ModifierDataShape(output[1], input[1])
          /\ input[1] = EmptyModifierData => Keys(output[1]) = {}
    /\ pc = "item" =>
          \A m \in DOMAIN input[1].modifiers :
              /\ Has(output[1], "mods")
              /\ Has(output[1].v["mods"], WireName[m])
              /\ ModifierDataShape(output[1].v["mods"].v[WireName[m]], input[1].modifiers[m])
              /\ input[1].modifiers[m] = EmptyModifierData =>
                    Keys(output[1].v["mods"].v[WireName[m]]) = {}

C8_Witness ==
    /\ pc = "item"
    /\ DOMAIN input[1].modifiers = {"Option", "Shift"}
    /\ input[1].modifiers["Option"].valid = Some(TRUE)
    /\ input[1].modifiers["Shift"] = EmptyModifierData
    /\ IsBool(output[1].v["mods"].v["alt"], "valid", TRUE)
    /\ Keys(output[1].v["mods"].v["shift"]) = {}

-----------------------------------------------------------------------------
(* variables *)

\* C9: key variables is in the object of an Item iff the item's mapping is
\* non-empty and in the root iff the builder's mapping is non-empty; when
\* present it holds exactly the pairs of the mapping.
C9_Variables ==
    /\ pc = "item" => VariablesKey(output[1], input[1].variables)
    /\ pc = "json" =>
          /\ VariablesKey(json[1], variables)
          /\ \A i \in 1..Len(items) :
                VariablesKey(json[1].v["items"].v[i], items[i].variables)

C9_Witness ==
    /\ pc = "json"
    /\ DOMAIN variables = VarKeys
    /\ variables["fruit"] # variables["vegetable"]
    /\ Len(items) = 2
    /\ DOMAIN items[1].variables = {} /\ DOMAIN items[2].variables # {}
    /\ Keys(json[1].v["variables"]) = VarKeys

-----------------------------------------------------------------------------
(* The setters of the Builder *)

\* the last call that decides key k: a set_variable of k, or a set_variables
Deciding(k) ==
    {i \in 1..Len(hist.calls) :
        \/ hist.calls[i].op = "set_variables"
        \/ hist.calls[i].op = "set_variable" /\ hist.calls[i].key = k}

LastDeciding(k) == CHOOSE i \in Deciding(k) : \A j \in Deciding(k) : j <= i

\* C10: after any sequence of setter calls the builder's mapping holds, for
\* each key, the value of the last set_variable of that key made since the
\* last set_variables, and otherwise what the last set_variables gave the key
\* (nothing with no set_variables); the variable setters leave the items as
\* the last item setter (or the constructor) set them.
C10_LastWriteWins ==
    pc = "build" =>
        /\ \A k \in VarKeys :
              IF Deciding(k) = {} THEN k \notin DOMAIN variables
              ELSE LET c == hist.calls[LastDeciding(k)]
                   IN  IF c.op = "set_variable"
                       THEN k \in DOMAIN variables /\ variables[k] = c.value
                       ELSE /\ k \in DOMAIN variables <=> k \in DOMAIN c.map
                            /\ k \in DOMAIN c.map => variables[k] = c.map[k]
        /\ DOMAIN variables \subseteq VarKeys
        /\ items = hist.slice

C10_Witness ==
    /\ pc = "build"
    /\ Len(hist.calls) = 2
    /\ hist.calls[1].op = "set_variable" /\ hist.calls[2].op = "set_variable"
    /\ hist.calls[1].key = hist.calls[2].key
    /\ hist.calls[1].value # hist.calls[2].value
    /\ Len(items) = 2

=============================================================================
